---- MODULE Spec2Model ----
(***************************************************************************)
(* Model of the training / evaluation engine of the 3D human pose          *)
(* estimation repository (source/engine.py, train.py, inference.py,        *)
(* source/prediction/prediction.py, source/data/datasetfactory.py), of its *)
(* loss module (source/lossfunctions/l1jointregressionloss.py) and of its  *)
(* network head (source/models/model_integral.py).                         *)
(*                                                                         *)
(* Spec          : a training process (train.py) followed by at most one   *)
(*                 process started from a checkpoint file the first one    *)
(*                 wrote: a resumed training (train.py --weights) or an    *)
(*                 inference (inference.py).  Every process writes into    *)
(*                 its own output directory.                               *)
(* SpecLoss      : the loss module applied to bounded batches.             *)
(* SpecRegressor : JointIntegralRegressor applied to bounded heatmaps.     *)
(* SpecDecoder   : JointHeatmapDecoder built and applied to bounded        *)
(*                 feature maps.                                           *)
(*                                                                         *)
(* Tensors hold small integers in place of floats; a prediction is the     *)
(* record of the sample it was computed for and of the parameter version   *)
(* that computed it.                                                       *)
(***************************************************************************)
EXTENDS Integers, Sequences, FiniteSets, TLC

\* ------------------------------------------------------------------ bounds
MaxEpochs == 3
MaxInterval == 2
MaxBatch == 2
MaxSetSize == 2
MaxTrainBatches == 2
MaxJ == 2
MaxN == 2
MaxCoord == 1
MaxAxis == 2
MaxKernel == 5
MaxLayers == 2
MaxFeature == 3

\* ------------------------------------------------------ engine state
VARIABLES
  DEVICE,                    \* "cuda" / "cpu", fixed when the module is imported
  num_epochs,                \* training.general.num_epochs
  checkpoint_save_interval,  \* training.general.checkpoint_save_interval
  batch_size,                \* training.general.batch_size
  dataset_cfg,               \* data_collection.dataset: sequence of names
  all_datasets,              \* JointDataset.__subclasses__(): names in import order
  set_len,                   \* length of the validation split of every dataset
  num_train_batches,         \* len(train_loader)
  val_set,                   \* data_collection.h36m_params.val_set
  run,                       \* "none", "fresh" (train.py), "resumed" (train.py --weights),
                             \* "inference" (inference.py)
  pc,                        \* position of the running process
  epoch_nr,                  \* argument of Engine.train
  epoch,                     \* loop variable of Engine.train
  batch_idx,                 \* batches consumed by the current loop
  training,                  \* model.training (train() / eval())
  model_state,               \* model parameters: number of optimizer steps applied
  optimizer_state,           \* optimizer state: number of steps taken
  lr_last_epoch,             \* lr_scheduler.last_epoch
  valid_dataset,             \* the ConcatDataset of the validation splits
  preds_list,                \* validate: the list of per-batch predictions
  preds_in_patch_with_score, \* validate: the returned flat predictions
  preds_in_img_with_score,   \* evaluate: predictions in image coordinates
  train_loss,                \* result of train_step
  val_loss,                  \* result of validate
  files,                     \* weights_checkpoint folder of every process
  model_backups,             \* whole_model_backups folder of every process
  executed,                  \* history: epochs whose train_step completed, this process
  invoked,                   \* history: epochs for which save_checkpoint was invoked
  sched_steps,               \* history: lr_scheduler.step() calls of this process
  opt_steps,                 \* history: optimizer.step() calls of the current epoch
  error,                     \* the exception that ended the process, or "none"
  only_prediction,           \* validate: its argument only_prediction
  losses_count,              \* validate: updates of its AverageMeter
  predict_cfg,               \* predict: the objects after get_dataset_config
  loaded,                    \* history: what load_checkpoints returned and restored
  saved,                     \* history: the arguments and engine state of save_checkpoint calls
  at_validate                \* history: the engine state when validate was entered

\* ------------------------------------------------------ loss-module state
VARIABLES
  J,                \* number of joints of the predictions
  size_average,     \* L1JointRegressionLoss.size_average
  batch,            \* the samples of the batch: prediction, target, visibility
  batch_losses,     \* forward: the per-sample losses
  loss_result,      \* forward: the returned value, or the error raised
  loss_pc           \* "off", "build", "returned", "raised"

\* ------------------------------------------------------ network-head state
VARIABLES
  heatmaps,          \* JointIntegralRegressor.forward: the input, exp(score) per voxel
  probabilities,     \* the volume after F.softmax and the reshape back
  joints,            \* the returned (N, J, 3) coordinates
  reg_pc,            \* "off", "collate", "returned"
  kernel_size,       \* model_params.kernel_size
  num_layers,        \* model_params.num_deconv_layers
  upsample_features, \* JointHeatmapDecoder: the stages constructed so far
  features,          \* JointHeatmapDecoder.forward: the feature-map sizes, input first
  heat_size,         \* JointHeatmapDecoder.forward: H and W of the returned heatmaps
  dec_pc             \* "off", "init", "rejected", "built", "forward", "returned"

envvars == <<DEVICE, num_epochs, checkpoint_save_interval, batch_size, dataset_cfg,
             all_datasets, set_len, num_train_batches, val_set>>
procvars == <<run, pc, epoch_nr, epoch, batch_idx, training, model_state, optimizer_state,
              lr_last_epoch, valid_dataset, preds_list, preds_in_patch_with_score,
              preds_in_img_with_score, train_loss, val_loss, executed, invoked,
              sched_steps, opt_steps, error>>
diskvars == <<files, model_backups>>
predvars == <<only_prediction, losses_count, predict_cfg>>
histvars == <<loaded, saved, at_validate>>
enginevars == <<envvars, procvars, diskvars, predvars, histvars>>
lossvars == <<J, size_average, batch, batch_losses, loss_result, loss_pc>>
regvars == <<heatmaps, probabilities, joints, reg_pc>>
decvars == <<kernel_size, num_layers, upsample_features, features, heat_size, dec_pc>>
modelvars == <<regvars, decvars>>
vars == <<enginevars, lossvars, modelvars, predvars, histvars>>

Min(a, b) == IF a < b THEN a ELSE b
Max(a, b) == IF a > b THEN a ELSE b

\* ------------------------------------------------------ data sets
\* The `name` of the registered JointDataset subclasses.
Registered == {"h36m", "mpii"}

\* str.lower() on the names above.
Lower(n) == IF n = "H36M" THEN "h36m" ELSE n

\* The configured dataset lists.
DatasetConfigs ==
  { <<>>, <<"foo">>, <<"H36M">>, <<"mpii">>, <<"H36M", "mpii">>, <<"H36M", "foo">> }

\* The orders in which the dataset modules can have been imported (glob order).
ImportOrders == { <<"h36m", "mpii">>, <<"mpii", "h36m">> }

\* DataSetFactory.load: the registered datasets whose lower-cased name is among
\* the lower-cased configured names, in registration order; ConfigurationError
\* when the configured list is empty or nothing matches.
DataSetFactory_load(cfg, subclasses) ==
  LET wanted  == { Lower(cfg[i]) : i \in 1..Len(cfg) }
      dataset == SelectSeq(subclasses, LAMBDA m : Lower(m) \in wanted)
  IN  IF Len(cfg) > 0 /\ Len(dataset) > 0
        THEN [err |-> "none", val |-> dataset]
        ELSE [err |-> "ConfigurationError", val |-> <<>>]

\* The samples of one dataset: sample number idx (from 1) of dataset `name`.
SamplesOf(name, lens) == [ i \in 1..lens[name] |-> [set |-> name, idx |-> i] ]

\* torch.utils.data.ConcatDataset: the samples of the datasets, one dataset
\* after the other.
RECURSIVE ConcatDataset(_, _)
ConcatDataset(datasets, lens) ==
  IF datasets = <<>> THEN <<>>
  ELSE SamplesOf(Head(datasets), lens) \o ConcatDataset(Tail(datasets), lens)

\* len(data_loader) of a loader without drop_last.
NumBatches(n, B) == (n + B - 1) \div B

\* Batch number k (from 0) of a loader that does not shuffle.
BatchOf(samples, B, k) == SubSeq(samples, k * B + 1, Min((k + 1) * B, Len(samples)))

\* What model(batch_data) followed by result_func yields for one sample: a
\* prediction in patch coordinates, of that sample, by the current parameters.
Predict(sample, params) == [sample |-> sample, params |-> params, frame |-> "patch"]

\* ------------------------------------------------------ validate: reassembly
\* A row of np.zeros.
ZeroRow == [sample |-> [set |-> "zeros", idx |-> 0], params |-> 0, frame |-> "patch"]

\* np.asarray of a list of arrays of shapes (b_i, J, 3): one 4-D array when all
\* b_i are equal, a 1-D array of objects otherwise (and for the empty list).
IsObjectArray(p) == Len(p) = 0 \/ \E i \in 1..Len(p) : Len(p[i]) # Len(p[1])

\* tp[start:end] = t (start, end counted from 0, the slice clipped to the array).
SliceAssign(tp, start, end, t) ==
  LET lo == Min(start, Len(tp))
      hi == Min(end, Len(tp))
      m  == Max(hi - lo, 0)
  IN  IF Len(t) = m
        THEN [err |-> "none",
              val |-> [ i \in 1..Len(tp) |-> IF lo < i /\ i <= hi THEN t[i - lo] ELSE tp[i] ]]
      ELSE IF Len(t) = 1
        THEN [err |-> "none",
              val |-> [ i \in 1..Len(tp) |-> IF lo < i /\ i <= hi THEN t[1] ELSE tp[i] ]]
      ELSE [err |-> "ValueError", val |-> tp]

\* The loop `for t in _p` of the partial-batch branch, from element k on.
RECURSIVE FillLoop(_, _, _, _, _)
FillLoop(p, k, tp, start, end) ==
  IF k > Len(p) THEN [err |-> "none", val |-> tp]
  ELSE LET r == SliceAssign(tp, start, end, p[k])
       IN  IF r.err # "none" THEN r
           ELSE FillLoop(p, k + 1, r.val, end, end + Len(p[k]))

\* The partial-batch branch (engine.py 287-298).
PartialBatches(p) ==
  IF Len(p) = 0 THEN [err |-> "IndexError", val |-> <<>>]
  ELSE LET n == (Len(p) - 1) * Len(p[1]) + Len(p[Len(p)])
       IN  FillLoop(p, 1, [ i \in 1..n |-> ZeroRow ], 0, Len(p[1]))

\* The reshape of the 4-D array to (batches * batch size, J, 3).
RECURSIVE Reshape(_)
Reshape(p) == IF p = <<>> THEN <<>> ELSE Head(p) \o Reshape(Tail(p))

\* Reassemble with the final slice taken up to len(data_loader), the number of
\* batches, instead of len(data_loader.dataset).
Reassemble_LoaderLen(p, dataset_len) ==
  LET r == IF IsObjectArray(p) THEN PartialBatches(p)
           ELSE [err |-> "none", val |-> Reshape(p)]
  IN  IF r.err # "none" THEN r
      ELSE [err |-> "none", val |-> SubSeq(r.val, 1, Min(Len(p), Len(r.val)))]

\* engine.py 284-307: the flat predictions validate returns.
Reassemble(p, dataset_len) ==
  LET r == IF IsObjectArray(p) THEN PartialBatches(p)
           ELSE [err |-> "none", val |-> Reshape(p)]
  IN  IF r.err # "none" THEN r
      ELSE [err |-> "none", val |-> SubSeq(r.val, 1, Min(dataset_len, Len(r.val)))]

\* ------------------------------------------------------ evaluate
\* engine.py 325-343: for the first dataset named h36m, prediction n_sample
\* transformed with the crop of that dataset's sample n_sample; <<>> when no
\* dataset is named h36m.
RECURSIVE EvaluatePreds(_, _, _)
EvaluatePreds(datasets, lens, preds) ==
  IF datasets = <<>> THEN <<>>
  ELSE IF Head(datasets) = "h36m"
    THEN [ n \in 1..lens["h36m"] |->
             [pred |-> preds[n], frame |-> "img", crop |-> [set |-> "h36m", idx |-> n]] ]
  ELSE EvaluatePreds(Tail(datasets), lens, preds)

\* ------------------------------------------------------ train: decisions
\* engine.py 107-109: the epoch train starts with.
StartEpoch(nr) == IF nr # 0 THEN nr + 1 ELSE 0

\* engine.py 135-136: whether the epoch is saved.
SaveDue(e, interval, total, device) ==
  (e % interval = interval - 1) \/ (e + 1 = total /\ device = "cuda")


\* ------------------------------------------------------ checkpoint files
Runs == {"fresh", "resumed"}
Epochs == 0..(MaxEpochs - 1)
Absent == [state |-> "absent"]
Partial == [state |-> "partial"]

\* The dictionary save_checkpoint hands to torch.save (engine.py 380-387).
CheckpointRecord(e, tl, vl) ==
  [state |-> "complete", epoch |-> e, model_state_dict |-> model_state,
   optimizer_state_dict |-> optimizer_state, lr_scheduler_state_dict |-> lr_last_epoch,
   train_loss |-> tl, val_loss |-> vl]

Running == {"loop", "train_step", "validate", "validate_loop", "evaluate", "checkpoint",
            "save_checkpoint", "writing"}
Terminal == {"done", "failed", "killed"}

\* The state of the model, the optimizer and the scheduler of the engine.
EngineState ==
  [model |-> model_state, optimizer |-> optimizer_state, lr_scheduler |-> lr_last_epoch]

\* load_checkpoints leaving the scheduler as Engine.__init__ built it.
load_checkpoints_FreshScheduler(folder, path) ==
  LET checkpoint == folder[path]
  IN  [state |-> "loaded", path |-> path, epoch |-> checkpoint.epoch,
       train_loss |-> checkpoint.train_loss, val_loss |-> checkpoint.val_loss,
       model |-> checkpoint.model_state_dict,
       optimizer |-> checkpoint.optimizer_state_dict, lr_scheduler |-> 0]

\* load_checkpoints(path) on a completely written file (engine.py 389-402):
\* the record torch.load reads, the states handed to load_state_dict and the
\* values returned.  The file <e>_checkpoint.pth is path e of its folder.
load_checkpoints(folder, path) ==
  LET checkpoint == folder[path]
  IN  [state |-> "loaded", path |-> path, epoch |-> checkpoint.epoch,
       train_loss |-> checkpoint.train_loss, val_loss |-> checkpoint.val_loss,
       model |-> checkpoint.model_state_dict,
       optimizer |-> checkpoint.optimizer_state_dict,
       lr_scheduler |-> checkpoint.lr_scheduler_state_dict]

NotLoaded == [state |-> "none"]
NotSaved == [state |-> "none"]

\* A call save_checkpoint(e, tl, vl) and the engine state it is made in.
SaveCall(e, tl, vl) ==
  [state |-> "called", epoch |-> e, train_loss |-> tl, val_loss |-> vl,
   model |-> model_state, optimizer |-> optimizer_state, lr_scheduler |-> lr_last_epoch]

\* ------------------------------------------------------ configuration objects
\* The objects reachable from the configuration: every object is its class and
\* its attribute dictionary, an attribute that holds an object holds a reference.
Ref(id) == [ref |-> id]

\* Configuration.get('data_collection') (prediction.py 50): the shared objects.
\* data_collection holds dataset, image_size and the parameters of each dataset;
\* these hold val_set and train_set, which stands for their other fields.
Configuration_get(ds, vs) ==
  ( "data_collection" :>
      [class |-> "namespace",
       dict  |-> ( "dataset" :> ds @@ "image_size" :> 256
                     @@ "h36m_params" :> Ref("h36m_params")
                     @@ "mpii_params" :> Ref("mpii_params") )] )
  @@ ( "h36m_params" :>
      [class |-> "namespace", dict |-> ( "val_set" :> vs @@ "train_set" :> "train" )] )
  @@ ( "mpii_params" :>
      [class |-> "namespace", dict |-> ( "val_set" :> "valid" @@ "train_set" :> "train" )] )

\* The attributes of the shared objects.
AttrsOf(id) ==
  IF id = "data_collection" THEN {"dataset", "image_size", "h36m_params", "mpii_params"}
  ELSE {"val_set", "train_set"}

\* AttrWrapper(wrapped) creating the object id (prediction.py 23-24).
AttrWrapper(heap, id, wrapped) ==
  ( id :> [class |-> "AttrWrapper", dict |-> ( "_wrapped" :> Ref(wrapped) )] ) @@ heap

\* getattr(object, n): the instance attribute, else what AttrWrapper.__getattr__
\* returns (prediction.py 26-27), else AttributeError.
RECURSIVE getattr(_, _, _)
getattr(heap, id, n) ==
  IF n \in DOMAIN heap[id].dict THEN [err |-> "none", val |-> heap[id].dict[n]]
  ELSE IF heap[id].class = "AttrWrapper"
    THEN getattr(heap, heap[id].dict["_wrapped"].ref, n)
  ELSE [err |-> "AttributeError", val |-> Ref("none")]

\* object.n = v: AttrWrapper defines no __setattr__, so the attribute is set on
\* the object itself.
setattr(heap, id, n, v) ==
  [heap EXCEPT ![id] = [class |-> @.class, dict |-> (n :> v) @@ @.dict]]

\* get_dataset_config writing the two fields into the shared configuration.
get_dataset_config_InPlace(heap) ==
  LET h1 == setattr(heap, "data_collection", "dataset", <<"h36m">>)
      h2 == setattr(h1, getattr(h1, "data_collection", "h36m_params").val.ref,
                    "val_set", "test")
  IN  AttrWrapper(h2, "cfg", "data_collection")

\* Prediction.get_dataset_config (prediction.py 50-57); the returned object is
\* "cfg".
get_dataset_config(heap) ==
  LET h1 == AttrWrapper(heap, "cfg", "data_collection")
      h2 == setattr(h1, "cfg", "dataset", <<"h36m">>)
      h3 == AttrWrapper(h2, "cfg.h36m_params",
                        getattr(h2, "data_collection", "h36m_params").val.ref)
      h4 == setattr(h3, "cfg", "h36m_params", Ref("cfg.h36m_params"))
  IN  setattr(h4, getattr(h4, "cfg", "h36m_params").val.ref, "val_set", "test")

NoView == [state |-> "none"]

\* ------------------------------------------------------ initial states
LossOff ==
  /\ J = 0
  /\ size_average = FALSE
  /\ batch = <<>>
  /\ batch_losses = <<>>
  /\ loss_result = [kind |-> "none"]
  /\ loss_pc = "off"

RegressorOff ==
  /\ heatmaps = <<>>
  /\ probabilities = <<>>
  /\ joints = <<>>
  /\ reg_pc = "off"

DecoderOff ==
  /\ kernel_size = 0
  /\ num_layers = 0
  /\ upsample_features = <<>>
  /\ features = <<>>
  /\ heat_size = [h |-> 0, w |-> 0]
  /\ dec_pc = "off"

ProcessBoot ==
  /\ run = "none"
  /\ pc = "boot"
  /\ epoch_nr = 0
  /\ epoch = 0
  /\ batch_idx = 0
  /\ training = TRUE
  /\ model_state = 0
  /\ optimizer_state = 0
  /\ lr_last_epoch = 0
  /\ valid_dataset = <<>>
  /\ preds_list = <<>>
  /\ preds_in_patch_with_score = <<>>
  /\ preds_in_img_with_score = <<>>
  /\ train_loss = [epoch |-> -1, updates |-> 0]
  /\ val_loss = [epoch |-> -1, updates |-> 0]
  /\ executed = <<>>
  /\ invoked = {}
  /\ sched_steps = 0
  /\ opt_steps = 0
  /\ error = "none"
  /\ only_prediction = FALSE
  /\ losses_count = 0
  /\ predict_cfg = NoView
  /\ loaded = NotLoaded
  /\ saved = [r \in Runs |-> [e \in Epochs |-> NotSaved]]
  /\ at_validate = EngineState

Init ==
  /\ DEVICE \in {"cuda", "cpu"}
  /\ num_epochs \in 1..MaxEpochs
  /\ checkpoint_save_interval \in 1..MaxInterval
  /\ batch_size \in 1..MaxBatch
  /\ dataset_cfg \in DatasetConfigs
  /\ all_datasets \in ImportOrders
  /\ set_len \in [Registered -> 1..MaxSetSize]
  /\ num_train_batches \in 1..MaxTrainBatches
  /\ val_set = "valid"
  /\ ProcessBoot
  /\ files = [r \in Runs |-> [e \in Epochs |-> Absent]]
  /\ model_backups = [r \in Runs |-> {}]
  /\ LossOff
  /\ RegressorOff
  /\ DecoderOff

\* ------------------------------------------------------ process start
\* Engine.train up to the loop (engine.py 81-111), entered with the engine
\* state (model, optimizer, scheduler) and the epoch number given.
EnterTrain(r, nr, m, o, l) ==
  LET ds == DataSetFactory_load(dataset_cfg, all_datasets)
  IN  /\ run' = r
      /\ epoch_nr' = nr
      /\ model_state' = m
      /\ optimizer_state' = o
      /\ lr_last_epoch' = l
      /\ batch_idx' = 0
      /\ training' = TRUE
      /\ preds_list' = <<>>
      /\ preds_in_patch_with_score' = <<>>
      /\ preds_in_img_with_score' = <<>>
      /\ train_loss' = [epoch |-> -1, updates |-> 0]
      /\ val_loss' = [epoch |-> -1, updates |-> 0]
      /\ executed' = <<>>
      /\ invoked' = {}
      /\ sched_steps' = 0
      /\ opt_steps' = 0
      /\ IF ds.err # "none"
           THEN /\ pc' = "failed"
                /\ error' = ds.err
                /\ valid_dataset' = <<>>
                /\ epoch' = 0
           ELSE /\ pc' = "loop"
                /\ error' = "none"
                /\ valid_dataset' = ConcatDataset(ds.val, set_len)
                /\ epoch' = StartEpoch(nr)

\* Engine.__init__ of a new process, followed by what load_checkpoints did, if
\* it was called.
EngineStart(l) ==
  /\ only_prediction' = FALSE
  /\ losses_count' = 0
  /\ predict_cfg' = NoView
  /\ loaded' = l
  /\ at_validate' = [model |-> 0, optimizer |-> 0, lr_scheduler |-> 0]
  /\ UNCHANGED saved

\* train.py 37-43 without --weights: Engine() and engine.train().
MainFresh ==
  /\ pc = "boot"
  /\ EnterTrain("fresh", 0, 0, 0, 0)
  /\ EngineStart(NotLoaded)
  /\ UNCHANGED <<envvars, diskvars, lossvars, modelvars>>

\* train.py 37-43 with --weights naming a file of the first process's checkpoint
\* folder: Engine(), engine.load_checkpoints(weights), engine.train(epoch).
MainResume ==
  /\ run = "fresh"
  /\ pc \in Terminal
  /\ \E e \in Epochs :
       /\ files["fresh"][e].state # "absent"
       /\ IF files["fresh"][e].state = "partial"
            THEN \* torch.load of a truncated file raises
                 /\ run' = "resumed"
                 /\ pc' = "failed"
                 /\ error' = "LoadError"
                 /\ epoch_nr' = 0
                 /\ epoch' = 0
                 /\ model_state' = 0
                 /\ optimizer_state' = 0
                 /\ lr_last_epoch' = 0
                 /\ batch_idx' = 0
                 /\ training' = TRUE
                 /\ valid_dataset' = <<>>
                 /\ preds_list' = <<>>
                 /\ preds_in_patch_with_score' = <<>>
                 /\ preds_in_img_with_score' = <<>>
                 /\ train_loss' = [epoch |-> -1, updates |-> 0]
                 /\ val_loss' = [epoch |-> -1, updates |-> 0]
                 /\ executed' = <<>>
                 /\ invoked' = {}
                 /\ sched_steps' = 0
                 /\ opt_steps' = 0
                 /\ EngineStart(NotLoaded)
            ELSE LET l == load_checkpoints(files["fresh"], e)
                 IN  /\ EnterTrain("resumed", l.epoch, l.model, l.optimizer, l.lr_scheduler)
                     /\ EngineStart(l)
  /\ UNCHANGED <<envvars, diskvars, lossvars, modelvars>>

\* inference.py 68-74 ending before predict: process_args finds no weights file
\* (err "NoWeights") or torch.load raises on the file found (err "LoadError").
InferenceAbort(err) ==
  /\ run' = "inference"
  /\ pc' = "failed"
  /\ error' = err
  /\ epoch_nr' = 0
  /\ epoch' = 0
  /\ model_state' = 0
  /\ optimizer_state' = 0
  /\ lr_last_epoch' = 0
  /\ batch_idx' = 0
  /\ training' = TRUE
  /\ valid_dataset' = <<>>
  /\ preds_list' = <<>>
  /\ preds_in_patch_with_score' = <<>>
  /\ preds_in_img_with_score' = <<>>
  /\ train_loss' = [epoch |-> -1, updates |-> 0]
  /\ val_loss' = [epoch |-> -1, updates |-> 0]
  /\ executed' = <<>>
  /\ invoked' = {}
  /\ sched_steps' = 0
  /\ opt_steps' = 0
  /\ EngineStart(NotLoaded)
  /\ UNCHANGED <<dataset_cfg, val_set>>

\* Prediction.predict up to the call of validate (prediction.py 59-73), entered
\* with the engine load_checkpoints restored: the view of the configuration,
\* the test dataset and its loader.
EnterPredict(l) ==
  LET heap == get_dataset_config(Configuration_get(dataset_cfg, val_set))
      ds   == DataSetFactory_load(getattr(heap, "cfg", "dataset").val, all_datasets)
  IN  /\ run' = "inference"
      /\ epoch_nr' = 0
      /\ epoch' = 0
      /\ model_state' = l.model
      /\ optimizer_state' = l.optimizer
      /\ lr_last_epoch' = l.lr_scheduler
      /\ batch_idx' = 0
      /\ training' = TRUE
      /\ preds_list' = <<>>
      /\ preds_in_patch_with_score' = <<>>
      /\ preds_in_img_with_score' = <<>>
      /\ train_loss' = [epoch |-> -1, updates |-> 0]
      /\ val_loss' = [epoch |-> -1, updates |-> 0]
      /\ executed' = <<>>
      /\ invoked' = {}
      /\ sched_steps' = 0
      /\ opt_steps' = 0
      /\ only_prediction' = FALSE
      /\ losses_count' = 0
      /\ loaded' = l
      /\ at_validate' = [model |-> 0, optimizer |-> 0, lr_scheduler |-> 0]
      /\ predict_cfg' = [state |-> "view", heap |-> heap]
      /\ dataset_cfg' = heap["data_collection"].dict["dataset"]
      /\ val_set' = heap["h36m_params"].dict["val_set"]
      /\ IF ds.err # "none"
           THEN /\ pc' = "failed"
                /\ error' = ds.err
                /\ valid_dataset' = <<>>
           ELSE /\ pc' = "validate"
                /\ error' = "none"
                /\ valid_dataset' = ConcatDataset(ds.val, set_len)
      /\ UNCHANGED saved

\* inference.py 56-78 on the run folder of the first process: the weights file
\* process_args finds in its checkpoint folder, Engine(),
\* engine.load_checkpoints(weights) and Prediction.predict().
MainInference ==
  /\ run = "fresh"
  /\ pc \in Terminal
  /\ IF \A e \in Epochs : files["fresh"][e].state = "absent"
       THEN InferenceAbort("NoWeights")
       ELSE \E e \in Epochs :
              /\ files["fresh"][e].state # "absent"
              /\ IF files["fresh"][e].state = "partial"
                   THEN InferenceAbort("LoadError")
                   ELSE EnterPredict(load_checkpoints(files["fresh"], e))
  /\ UNCHANGED <<DEVICE, num_epochs, checkpoint_save_interval, batch_size, all_datasets,
                 set_len, num_train_batches>>
  /\ UNCHANGED <<diskvars, lossvars, modelvars>>


\* ------------------------------------------------------ Engine.train: the loop
\* engine.py 112 with the loop condition true, and the entry of train_step
\* (engine.py 147-159).
TrainStepBegin ==
  /\ pc = "loop"
  /\ epoch < num_epochs
  /\ training' = TRUE
  /\ batch_idx' = 0
  /\ opt_steps' = 0
  /\ pc' = "train_step"
  /\ UNCHANGED <<run, epoch_nr, epoch, model_state, optimizer_state, lr_last_epoch,
                 valid_dataset, preds_list, preds_in_patch_with_score,
                 preds_in_img_with_score, train_loss, val_loss, executed, invoked,
                 sched_steps, error>>
  /\ UNCHANGED <<envvars, diskvars, lossvars, modelvars, predvars, histvars>>

\* engine.py 112 with the loop condition false: train returns.
TrainReturn ==
  /\ pc = "loop"
  /\ ~(epoch < num_epochs)
  /\ pc' = "done"
  /\ UNCHANGED <<run, epoch_nr, epoch, batch_idx, training, model_state, optimizer_state,
                 lr_last_epoch, valid_dataset, preds_list, preds_in_patch_with_score,
                 preds_in_img_with_score, train_loss, val_loss, executed, invoked,
                 sched_steps, opt_steps, error>>
  /\ UNCHANGED <<envvars, diskvars, lossvars, modelvars, predvars, histvars>>

\* TrainBatch with lr_scheduler.step() indented into the batch loop.
TrainBatch_StepsScheduler ==
  /\ pc = "train_step"
  /\ batch_idx < num_train_batches
  /\ model_state' = model_state + 1
  /\ optimizer_state' = optimizer_state + 1
  /\ opt_steps' = opt_steps + 1
  /\ batch_idx' = batch_idx + 1
  /\ lr_last_epoch' = lr_last_epoch + 1
  /\ sched_steps' = sched_steps + 1
  /\ UNCHANGED <<run, pc, epoch_nr, epoch, training, valid_dataset,
                 preds_list, preds_in_patch_with_score, preds_in_img_with_score,
                 train_loss, val_loss, executed, invoked, error>>
  /\ UNCHANGED <<envvars, diskvars, lossvars, modelvars, predvars, histvars>>

\* One batch of train_step (engine.py 162-207): zero_grad, forward, loss,
\* backward, optimizer.step.
TrainBatch ==
  /\ pc = "train_step"
  /\ batch_idx < num_train_batches
  /\ model_state' = model_state + 1
  /\ optimizer_state' = optimizer_state + 1
  /\ opt_steps' = opt_steps + 1
  /\ batch_idx' = batch_idx + 1
  /\ UNCHANGED <<run, pc, epoch_nr, epoch, training, lr_last_epoch, valid_dataset,
                 preds_list, preds_in_patch_with_score, preds_in_img_with_score,
                 train_loss, val_loss, executed, invoked, sched_steps, error>>
  /\ UNCHANGED <<envvars, diskvars, lossvars, modelvars, predvars, histvars>>

\* TrainBatchRaise with the exception caught and the batch skipped.
TrainBatchRaise_Skip ==
  /\ pc = "train_step"
  /\ batch_idx < num_train_batches
  /\ batch_idx' = batch_idx + 1
  /\ error' = "BatchError"
  /\ UNCHANGED <<run, pc, epoch_nr, epoch, training, model_state, optimizer_state,
                 lr_last_epoch, valid_dataset, preds_list, preds_in_patch_with_score,
                 preds_in_img_with_score, train_loss, val_loss, executed, invoked,
                 sched_steps, opt_steps>>
  /\ UNCHANGED <<envvars, diskvars, lossvars, modelvars, predvars, histvars>>

\* One batch of train_step whose forward pass, loss or backward pass raises
\* (engine.py 178-190): nothing catches the exception.
TrainBatchRaise ==
  /\ pc = "train_step"
  /\ batch_idx < num_train_batches
  /\ pc' = "failed"
  /\ error' = "BatchError"
  /\ UNCHANGED <<run, epoch_nr, epoch, batch_idx, training, model_state, optimizer_state,
                 lr_last_epoch, valid_dataset, preds_list, preds_in_patch_with_score,
                 preds_in_img_with_score, train_loss, val_loss, executed, invoked,
                 sched_steps, opt_steps>>
  /\ UNCHANGED <<envvars, diskvars, lossvars, modelvars, predvars, histvars>>

\* The end of train_step (engine.py 221-234): the scheduler step and the return.
TrainStepEnd ==
  /\ pc = "train_step"
  /\ ~(batch_idx < num_train_batches)
  /\ lr_last_epoch' = lr_last_epoch + 1
  /\ sched_steps' = sched_steps + 1
  /\ train_loss' = [epoch |-> epoch, updates |-> batch_idx]
  /\ executed' = Append(executed, epoch)
  /\ pc' = "validate"
  /\ UNCHANGED <<run, epoch_nr, epoch, batch_idx, training, model_state, optimizer_state,
                 valid_dataset, preds_list, preds_in_patch_with_score,
                 preds_in_img_with_score, val_loss, invoked, opt_steps, error>>
  /\ UNCHANGED <<envvars, diskvars, lossvars, modelvars, predvars, histvars>>

\* ------------------------------------------------------ Engine.validate
\* engine.py 236-250: model.eval(), the fresh AverageMeter and the empty list of
\* predictions.  train calls validate with only_prediction left at its default
\* False (engine.py 119), predict with True (prediction.py 73).
ValidateBegin ==
  /\ pc = "validate"
  /\ training' = FALSE
  /\ preds_list' = <<>>
  /\ batch_idx' = 0
  /\ only_prediction' = (run = "inference")
  /\ losses_count' = 0
  /\ at_validate' = EngineState
  /\ pc' = "validate_loop"
  /\ UNCHANGED <<run, epoch_nr, epoch, model_state, optimizer_state, lr_last_epoch,
                 valid_dataset, preds_in_patch_with_score, preds_in_img_with_score,
                 train_loss, val_loss, executed, invoked, sched_steps, opt_steps, error>>
  /\ UNCHANGED <<envvars, diskvars, lossvars, modelvars, predict_cfg, loaded, saved>>

\* ValidateBatch with an optimizer step taken on the batch.
ValidateBatch_Steps ==
  /\ pc = "validate_loop"
  /\ batch_idx < NumBatches(Len(valid_dataset), batch_size)
  /\ IF DEVICE = "cuda"
       THEN /\ preds_list' = Append(preds_list,
                 LET b == BatchOf(valid_dataset, batch_size, batch_idx)
                 IN  [ i \in 1..Len(b) |-> Predict(b[i], model_state) ])
            /\ batch_idx' = batch_idx + 1
            /\ losses_count' = IF only_prediction THEN losses_count ELSE losses_count + 1
            /\ model_state' = model_state + 1
            /\ optimizer_state' = optimizer_state + 1
            /\ UNCHANGED <<pc, error>>
       ELSE /\ pc' = "failed"
            /\ error' = "CudaError"
            /\ UNCHANGED <<preds_list, batch_idx, losses_count, model_state, optimizer_state>>
  /\ UNCHANGED <<run, epoch_nr, epoch, training,
                 lr_last_epoch, valid_dataset, preds_in_patch_with_score,
                 preds_in_img_with_score, train_loss, val_loss, executed, invoked,
                 sched_steps, opt_steps>>
  /\ UNCHANGED <<envvars, diskvars, lossvars, modelvars, only_prediction, predict_cfg, histvars>>

\* One batch of validate (engine.py 252-279).  batch_data.cuda() raises when no
\* CUDA device is available, which is when DEVICE is "cpu".  The loss is
\* computed and the meter updated unless only_prediction (engine.py 264-273).
ValidateBatch ==
  /\ pc = "validate_loop"
  /\ batch_idx < NumBatches(Len(valid_dataset), batch_size)
  /\ IF DEVICE = "cuda"
       THEN /\ preds_list' = Append(preds_list,
                 LET b == BatchOf(valid_dataset, batch_size, batch_idx)
                 IN  [ i \in 1..Len(b) |-> Predict(b[i], model_state) ])
            /\ batch_idx' = batch_idx + 1
            /\ losses_count' = IF only_prediction THEN losses_count ELSE losses_count + 1
            /\ UNCHANGED <<pc, error>>
       ELSE /\ pc' = "failed"
            /\ error' = "CudaError"
            /\ UNCHANGED <<preds_list, batch_idx, losses_count>>
  /\ UNCHANGED <<run, epoch_nr, epoch, training, model_state, optimizer_state,
                 lr_last_epoch, valid_dataset, preds_in_patch_with_score,
                 preds_in_img_with_score, train_loss, val_loss, executed, invoked,
                 sched_steps, opt_steps>>
  /\ UNCHANGED <<envvars, diskvars, lossvars, modelvars, only_prediction, predict_cfg, histvars>>

\* The end of validate (engine.py 281-319): the reassembly and the return.
ValidateEnd ==
  /\ pc = "validate_loop"
  /\ ~(batch_idx < NumBatches(Len(valid_dataset), batch_size))
  /\ LET r == Reassemble(preds_list, Len(valid_dataset))
     IN  IF r.err = "none"
           THEN /\ preds_in_patch_with_score' = r.val
                /\ val_loss' = [epoch |-> epoch, updates |-> losses_count]
                /\ pc' = "evaluate"
                /\ error' = error
           ELSE /\ pc' = "failed"
                /\ error' = r.err
                /\ UNCHANGED <<preds_in_patch_with_score, val_loss>>
  /\ UNCHANGED <<run, epoch_nr, epoch, batch_idx, training, model_state, optimizer_state,
                 lr_last_epoch, valid_dataset, preds_list, preds_in_img_with_score,
                 train_loss, executed, invoked, sched_steps, opt_steps>>
  /\ UNCHANGED <<envvars, diskvars, lossvars, modelvars, predvars, histvars>>

\* ------------------------------------------------------ Engine.evaluate
\* val_loader.dataset.datasets: what DataSetFactory.load built from the
\* configuration of train (engine.py 85-86) or from the one of predict
\* (prediction.py 60-62).
LoaderDatasets ==
  IF run = "inference"
    THEN DataSetFactory_load(getattr(predict_cfg.heap, "cfg", "dataset").val, all_datasets).val
    ELSE DataSetFactory_load(dataset_cfg, all_datasets).val

\* engine.py 321-365 on the datasets of the loader it is given; then the
\* best-model bookkeeping of train (engine.py 125-131), or the end of predict
\* (prediction.py 74-76) and of inference.py.
Evaluate ==
  /\ pc = "evaluate"
  /\ preds_in_img_with_score' =
       EvaluatePreds(LoaderDatasets, set_len, preds_in_patch_with_score)
  /\ pc' = IF run = "inference" THEN "done" ELSE "checkpoint"
  /\ UNCHANGED <<run, epoch_nr, epoch, batch_idx, training, model_state, optimizer_state,
                 lr_last_epoch, valid_dataset, preds_list, preds_in_patch_with_score,
                 train_loss, val_loss, executed, invoked, sched_steps, opt_steps, error>>
  /\ UNCHANGED <<envvars, diskvars, lossvars, modelvars, predvars, histvars>>

\* ------------------------------------------------------ checkpointing
\* engine.py 135-140 with the condition false: the next epoch.
CheckpointSkip ==
  /\ pc = "checkpoint"
  /\ ~SaveDue(epoch, checkpoint_save_interval, num_epochs, DEVICE)
  /\ epoch' = epoch + 1
  /\ pc' = "loop"
  /\ UNCHANGED <<run, epoch_nr, batch_idx, training, model_state, optimizer_state,
                 lr_last_epoch, valid_dataset, preds_list, preds_in_patch_with_score,
                 preds_in_img_with_score, train_loss, val_loss, executed, invoked,
                 sched_steps, opt_steps, error>>
  /\ UNCHANGED <<envvars, diskvars, lossvars, modelvars, predvars, histvars>>

\* engine.py 135-137 with the condition true: save_model (engine.py 367-373).
SaveModel ==
  /\ pc = "checkpoint"
  /\ SaveDue(epoch, checkpoint_save_interval, num_epochs, DEVICE)
  /\ model_backups' = [model_backups EXCEPT ![run] = @ \cup {epoch}]
  /\ pc' = "save_checkpoint"
  /\ UNCHANGED <<run, epoch_nr, epoch, batch_idx, training, model_state, optimizer_state,
                 lr_last_epoch, valid_dataset, preds_list, preds_in_patch_with_score,
                 preds_in_img_with_score, train_loss, val_loss, executed, invoked,
                 sched_steps, opt_steps, error>>
  /\ UNCHANGED <<envvars, files, lossvars, modelvars, predvars, histvars>>

\* save_checkpoint is invoked (engine.py 375-380): torch.save opens
\* <epoch>_checkpoint.pth in the checkpoint folder for writing.
SaveCheckpointOpen ==
  /\ pc = "save_checkpoint"
  /\ invoked' = invoked \cup {epoch}
  /\ saved' = [saved EXCEPT ![run][epoch] = SaveCall(epoch, train_loss, val_loss)]
  /\ files' = [files EXCEPT ![run][epoch] = Partial]
  /\ pc' = "writing"
  /\ UNCHANGED <<run, epoch_nr, epoch, batch_idx, training, model_state, optimizer_state,
                 lr_last_epoch, valid_dataset, preds_list, preds_in_patch_with_score,
                 preds_in_img_with_score, train_loss, val_loss, executed, sched_steps,
                 opt_steps, error>>
  /\ UNCHANGED <<envvars, model_backups, lossvars, modelvars, predvars, loaded, at_validate>>

\* torch.save finishes writing the record (engine.py 380-387); train goes on to
\* the next epoch (engine.py 140).
SaveCheckpointWrite ==
  /\ pc = "writing"
  /\ files' = [files EXCEPT ![run][epoch] = CheckpointRecord(epoch, train_loss, val_loss)]
  /\ epoch' = epoch + 1
  /\ pc' = "loop"
  /\ UNCHANGED <<run, epoch_nr, batch_idx, training, model_state, optimizer_state,
                 lr_last_epoch, valid_dataset, preds_list, preds_in_patch_with_score,
                 preds_in_img_with_score, train_loss, val_loss, executed, invoked,
                 sched_steps, opt_steps, error>>
  /\ UNCHANGED <<envvars, model_backups, lossvars, modelvars, predvars, histvars>>

\* The process is terminated from outside (a crash, a kill) wherever it is.
Kill ==
  /\ pc \in Running
  /\ pc' = "killed"
  /\ UNCHANGED <<run, epoch_nr, epoch, batch_idx, training, model_state, optimizer_state,
                 lr_last_epoch, valid_dataset, preds_list, preds_in_patch_with_score,
                 preds_in_img_with_score, train_loss, val_loss, executed, invoked,
                 sched_steps, opt_steps, error>>
  /\ UNCHANGED <<envvars, diskvars, lossvars, modelvars, predvars, histvars>>

Next ==
  \/ MainFresh
  \/ MainResume
  \/ MainInference
  \/ TrainStepBegin
  \/ TrainReturn
  \/ TrainBatch
  \/ TrainBatchRaise
  \/ TrainStepEnd
  \/ ValidateBegin
  \/ ValidateBatch
  \/ ValidateEnd
  \/ Evaluate
  \/ CheckpointSkip
  \/ SaveModel
  \/ SaveCheckpointOpen
  \/ SaveCheckpointWrite
  \/ Kill

Spec == Init /\ [][Next]_vars


\* ====================================================== the loss module
\* ------------------------------------------------------ float values
\* A float is an exact fraction n/d, or nan, or inf.
RECURSIVE GCD(_, _)
GCD(a, b) == IF b = 0 THEN a ELSE GCD(b, a % b)

Abs(x) == IF x < 0 THEN -x ELSE x

Num(n, d) == LET g == GCD(Abs(n), d) IN [kind |-> "num", n |-> n \div g, d |-> d \div g]
NaN == [kind |-> "nan", n |-> 0, d |-> 1]
Inf == [kind |-> "inf", n |-> 0, d |-> 1]

\* x + y
FAdd(x, y) ==
  IF x.kind = "nan" \/ y.kind = "nan" THEN NaN
  ELSE IF x.kind = "inf" \/ y.kind = "inf" THEN Inf
  ELSE Num(x.n * y.d + y.n * x.d, x.d * y.d)

\* x / k for k >= 0 and x >= 0: 0/0 is nan and x/0 is inf, as torch divides.
FDiv(x, k) ==
  IF x.kind = "nan" THEN NaN
  ELSE IF x.kind = "inf" THEN Inf
  ELSE IF k = 0 THEN (IF x.n = 0 THEN NaN ELSE Inf)
  ELSE Num(x.n, x.d * k)

RECURSIVE FSum(_)
FSum(xs) == IF xs = <<>> THEN Num(0, 1) ELSE FAdd(Head(xs), FSum(Tail(xs)))

RECURSIVE SeqSum(_)
SeqSum(xs) == IF xs = <<>> THEN 0 ELSE Head(xs) + SeqSum(Tail(xs))

\* tensor.sum() of a matrix (a sequence of rows).
MatSum(m) == SeqSum([ i \in 1..Len(m) |-> SeqSum(m[i]) ])

\* tensor.shape of a matrix.
Shape(m) == <<Len(m), IF Len(m) = 0 THEN 0 ELSE Len(m[1])>>

\* ------------------------------------------------------ weighted_l1_loss
\* l1jointregressionloss.py 5-16 with norm left at its default False; the
\* weights are broadcast along a dimension in which they have size 1.
weighted_l1_loss(input, target, weights, average) ==
  LET out == [ i \in 1..Len(input) |->
                 [ a \in 1..Len(input[i]) |->
                     Abs(input[i][a] - target[i][a])
                       * weights[i][IF Len(weights[i]) = 1 THEN 1 ELSE a] ] ]
      num_valid == Cardinality({ i \in 1..Len(weights) :
                                   \E a \in 1..Len(weights[i]) : weights[i][a] # 0 })
  IN  IF average THEN FDiv(Num(MatSum(out), 1), num_valid)
      ELSE Num(MatSum(out), 1)

\* gt_joints_vis.unsqueeze(1): shape (J,) to (J, 1).
Unsqueeze1(v) == [ j \in 1..Len(v) |-> <<v[j]>> ]

\* pred_joints[:, :2]
FirstTwo(m) == [ j \in 1..Len(m) |-> SubSeq(m[j], 1, Min(2, Len(m[j]))) ]

\* regression_loss_2d asking weighted_l1_loss to average.
regression_loss_2d_Averaged(pred_joints, gt_joints, gt_joints_vis) ==
  weighted_l1_loss(FirstTwo(pred_joints), gt_joints, Unsqueeze1(gt_joints_vis), TRUE)

\* L1JointRegressionLoss.regression_loss_2d (l1jointregressionloss.py 45-46).
regression_loss_2d(pred_joints, gt_joints, gt_joints_vis) ==
  weighted_l1_loss(FirstTwo(pred_joints), gt_joints, Unsqueeze1(gt_joints_vis), FALSE)

\* regression_loss_3d asking weighted_l1_loss to average.
regression_loss_3d_Averaged(pred_joints, gt_joints, gt_joints_vis) ==
  weighted_l1_loss(pred_joints, gt_joints, Unsqueeze1(gt_joints_vis), TRUE)

\* L1JointRegressionLoss.regression_loss_3d (l1jointregressionloss.py 48-52).
regression_loss_3d(pred_joints, gt_joints, gt_joints_vis) ==
  weighted_l1_loss(pred_joints, gt_joints, Unsqueeze1(gt_joints_vis), FALSE)

\* SampleLoss with any other target shape handed to the 3D branch instead of
\* raising.
SampleLoss_Coerce(nj, s) ==
  IF Len(s.vis) # nj THEN [err |-> "AssertionError", val |-> NaN]
  ELSE IF Shape(s.target) = <<nj, 2>>
    THEN [err |-> "none", val |-> regression_loss_2d(s.pred, s.target, s.vis)]
  ELSE [err |-> "none", val |-> regression_loss_3d(s.pred, s.target, s.vis)]

\* The body of forward's loop for one sample (l1jointregressionloss.py 62-81).
SampleLoss(nj, s) ==
  IF Len(s.vis) # nj THEN [err |-> "AssertionError", val |-> NaN]
  ELSE IF Shape(s.target) = <<nj, 2>>
    THEN [err |-> "none", val |-> regression_loss_2d(s.pred, s.target, s.vis)]
  ELSE IF Shape(s.target) = <<nj, 3>>
    THEN [err |-> "none", val |-> regression_loss_3d(s.pred, s.target, s.vis)]
  ELSE [err |-> "AssertionError", val |-> NaN]

\* forward's loop from sample k on (l1jointregressionloss.py 60-81).
RECURSIVE ForwardLoop(_, _, _, _)
ForwardLoop(nj, b, k, losses) ==
  IF k > Len(b) THEN [err |-> "none", losses |-> losses]
  ELSE LET r == SampleLoss(nj, b[k])
       IN  IF r.err # "none" THEN [err |-> r.err, losses |-> losses]
           ELSE ForwardLoop(nj, b, k + 1, Append(losses, r.val))

\* torch.stack(batch_losses).mean() or .sum() (l1jointregressionloss.py 82-84).
Reduce(losses, average) ==
  IF average THEN FDiv(FSum(losses), Len(losses)) ELSE FSum(losses)

\* ------------------------------------------------------ inputs
\* The prediction of a sample: joint j, axis a holds j + a.
PredOf(nj) == [ j \in 1..nj |-> [ a \in 1..3 |-> j + a ] ]

\* A target of the given shape filled with t.
TargetOf(shape, t) == [ i \in 1..shape[1] |-> [ a \in 1..shape[2] |-> t ] ]

\* The target shapes tried: the two the module accepts and two it does not.
Shapes(nj) == { <<nj, 2>>, <<nj, 3>>, <<nj, 4>>, <<nj + 1, 3>> }

\* The visibility vectors tried: every joint visible, none, the first only.
VisChoices(nj) ==
  { [ j \in 1..nj |-> 1 ], [ j \in 1..nj |-> 0 ], [ j \in 1..nj |-> IF j = 1 THEN 1 ELSE 0 ] }

SampleChoices(nj) ==
  { [pred |-> PredOf(nj), target |-> TargetOf(sh, t), vis |-> v] :
      sh \in Shapes(nj), t \in 0..MaxCoord, v \in VisChoices(nj) }

\* ------------------------------------------------------ actions
InitLoss ==
  /\ DEVICE = "cuda"
  /\ num_epochs = 1
  /\ checkpoint_save_interval = 1
  /\ batch_size = 1
  /\ dataset_cfg = <<"H36M">>
  /\ all_datasets = <<"h36m", "mpii">>
  /\ set_len = [d \in Registered |-> 1]
  /\ num_train_batches = 1
  /\ val_set = "valid"
  /\ ProcessBoot
  /\ files = [r \in Runs |-> [e \in Epochs |-> Absent]]
  /\ model_backups = [r \in Runs |-> {}]
  /\ J \in 1..MaxJ
  /\ size_average \in BOOLEAN
  /\ batch = <<>>
  /\ batch_losses = <<>>
  /\ loss_result = [kind |-> "none"]
  /\ loss_pc = "build"
  /\ RegressorOff
  /\ DecoderOff

\* The data loader collates one more sample into the batch.
AddSample ==
  /\ loss_pc = "build"
  /\ Len(batch) < MaxN
  /\ \E s \in SampleChoices(J) : batch' = Append(batch, s)
  /\ UNCHANGED <<J, size_average, batch_losses, loss_result, loss_pc>>
  /\ UNCHANGED <<enginevars, modelvars>>

\* L1JointRegressionLoss.forward on the batch (l1jointregressionloss.py 54-84).
Forward ==
  /\ loss_pc = "build"
  /\ Len(batch) >= 1
  /\ LET r == ForwardLoop(J, batch, 1, <<>>)
     IN  /\ batch_losses' = r.losses
         /\ IF r.err # "none"
              THEN /\ loss_pc' = "raised"
                   /\ loss_result' = [kind |-> r.err]
              ELSE /\ loss_pc' = "returned"
                   /\ loss_result' = [kind |-> "value", val |-> Reduce(r.losses, size_average)]
  /\ UNCHANGED <<J, size_average, batch>>
  /\ UNCHANGED <<enginevars, modelvars>>

NextLoss ==
  \/ AddSample
  \/ Forward

SpecLoss == InitLoss /\ [][NextLoss]_vars


\* ====================================================== the network head
\* ------------------------------------------------------ float arithmetic
\* x - y, x * k and x < y, x <= y on exact fractions.
FSub(x, y) == Num(x.n * y.d - y.n * x.d, x.d * y.d)
FMul(x, k) == Num(x.n * k, x.d)
FLess(x, y) == x.n * y.d < y.n * x.d
FLeq(x, y) == x.n * y.d <= y.n * x.d

\* ------------------------------------------------------ JointIntegralRegressor
\* A heatmap volume holds exp(score), a positive integer, for every voxel, so
\* that the softmax is a quotient of integers.
\* heatmaps.shape (model_integral.py 115).
HeatShape(t) ==
  [N |-> Len(t), J |-> Len(t[1]), D |-> Len(t[1][1]), H |-> Len(t[1][1][1]),
   W |-> Len(t[1][1][1][1])]

\* tensor.reshape(N, J, D * H * W) (model_integral.py 118): row-major order.
Flatten(t) ==
  LET s == HeatShape(t)
  IN  [ n \in 1..s.N |-> [ j \in 1..s.J |-> [ k \in 1..(s.D * s.H * s.W) |->
          t[n][j][((k - 1) \div (s.H * s.W)) + 1][(((k - 1) \div s.W) % s.H) + 1]
           [((k - 1) % s.W) + 1] ] ] ]

\* tensor.reshape(N, J, D, H, W) (model_integral.py 120).
Unflatten(f, D, H, W) ==
  [ n \in 1..Len(f) |-> [ j \in 1..Len(f[n]) |-> [ d \in 1..D |-> [ h \in 1..H |->
      [ w \in 1..W |-> f[n][j][(d - 1) * H * W + (h - 1) * W + w] ] ] ] ] ]

\* The dimension F.softmax normalises over when the call names none
\* (model_integral.py 119): 0 for a tensor of 0, 1 or 3 dimensions, else 1.
get_softmax_dim(ndim) == IF ndim \in {0, 1, 3} THEN 0 ELSE 1

\* softmax of a 3-dimensional tensor of exp(score) along dimension dim.
Softmax(f, dim) ==
  [ n \in 1..Len(f) |-> [ j \in 1..Len(f[n]) |-> [ k \in 1..Len(f[n][j]) |->
      Num(f[n][j][k],
          IF dim = 0 THEN SeqSum([ m \in 1..Len(f) |-> f[m][j][k] ])
          ELSE IF dim = 1 THEN SeqSum([ m \in 1..Len(f[n]) |-> f[n][m][k] ])
          ELSE SeqSum(f[n][j])) ] ] ]

\* F.softmax(heatmaps) on the reshaped tensor (model_integral.py 119).
F_softmax(f) == Softmax(f, get_softmax_dim(3))

\* heatmaps.sum(dim=2).sum(dim=2), .sum(dim=2).sum(dim=3) and
\* .sum(dim=3).sum(dim=3) for one sample and joint (model_integral.py 123-125).
x_maps(v, D, H, W) ==
  [ w \in 1..W |-> FSum([ h \in 1..H |-> FSum([ d \in 1..D |-> v[d][h][w] ]) ]) ]
y_maps(v, D, H, W) ==
  [ h \in 1..H |-> FSum([ w \in 1..W |-> FSum([ d \in 1..D |-> v[d][h][w] ]) ]) ]
z_maps(v, D, H, W) ==
  [ d \in 1..D |-> FSum([ w \in 1..W |-> FSum([ h \in 1..H |-> v[d][h][w] ]) ]) ]

\* The expected coordinate taken at the centre of every bin.
ExpectedCoordinate_BinCentre(marginal, L) ==
  FSub(FDiv(FAdd(FSum([ i \in 1..L |-> FMul(marginal[i], i - 1) ]),
                 FDiv(FSum(marginal), 2)), L),
       Num(1, 2))

\* (maps * torch.arange(L)).sum(dim=2) / L - 0.5 (model_integral.py 128-130).
ExpectedCoordinate(marginal, L) ==
  FSub(FDiv(FSum([ i \in 1..L |-> FMul(marginal[i], i - 1) ]), L), Num(1, 2))

\* JointIntegralRegressor.forward up to the reshape back (model_integral.py 115-120).
Probabilities(t) ==
  LET s == HeatShape(t) IN Unflatten(F_softmax(Flatten(t)), s.D, s.H, s.W)

\* The rest of JointIntegralRegressor.forward (model_integral.py 123-132).
Integrate(p) ==
  LET s == HeatShape(p)
  IN  [ n \in 1..s.N |-> [ j \in 1..s.J |->
        << ExpectedCoordinate(x_maps(p[n][j], s.D, s.H, s.W), s.W),
           ExpectedCoordinate(y_maps(p[n][j], s.D, s.H, s.W), s.H),
           ExpectedCoordinate(z_maps(p[n][j], s.D, s.H, s.W), s.D) >> ] ]

\* ------------------------------------------------------ inputs
\* The heatmaps of one sample: uniform scores, or for every joint a peak at one
\* corner voxel of the volume, the higher the later the joint.
UniformVolume(nj, D, H, W) ==
  [ j \in 1..nj |-> [ d \in 1..D |-> [ h \in 1..H |-> [ w \in 1..W |-> 1 ] ] ] ]

PeakVolume(nj, D, H, W, pd, ph, pw) ==
  [ j \in 1..nj |-> [ d \in 1..D |-> [ h \in 1..H |-> [ w \in 1..W |->
      IF d = pd /\ h = ph /\ w = pw THEN 1 + j ELSE 1 ] ] ] ]

VolumeChoices(nj, D, H, W) ==
  { UniformVolume(nj, D, H, W) }
    \cup { PeakVolume(nj, D, H, W, pd, ph, pw) : pd \in {1, D}, ph \in {1, H}, pw \in {1, W} }

\* ------------------------------------------------------ actions
InitRegressor ==
  /\ DEVICE = "cuda"
  /\ num_epochs = 1
  /\ checkpoint_save_interval = 1
  /\ batch_size = 1
  /\ dataset_cfg = <<"H36M">>
  /\ all_datasets = <<"h36m", "mpii">>
  /\ set_len = [d \in Registered |-> 1]
  /\ num_train_batches = 1
  /\ val_set = "valid"
  /\ ProcessBoot
  /\ files = [r \in Runs |-> [e \in Epochs |-> Absent]]
  /\ model_backups = [r \in Runs |-> {}]
  /\ LossOff
  /\ DecoderOff
  /\ \E nj \in 1..MaxJ, D \in 1..MaxAxis, H \in 1..MaxAxis, W \in 1..MaxAxis :
       \E v \in VolumeChoices(nj, D, H, W) : heatmaps = <<v>>
  /\ probabilities = <<>>
  /\ joints = <<>>
  /\ reg_pc = "collate"

\* The batch grows by the heatmaps of one more sample.
CollateHeatmaps ==
  /\ reg_pc = "collate"
  /\ Len(heatmaps) < MaxN
  /\ LET s == HeatShape(heatmaps)
     IN  \E v \in VolumeChoices(s.J, s.D, s.H, s.W) : heatmaps' = Append(heatmaps, v)
  /\ UNCHANGED <<probabilities, joints, reg_pc>>
  /\ UNCHANGED <<enginevars, lossvars, decvars>>

\* JointIntegralRegressor.forward (model_integral.py 114-132).
RegressorForward ==
  /\ reg_pc = "collate"
  /\ probabilities' = Probabilities(heatmaps)
  /\ joints' = Integrate(Probabilities(heatmaps))
  /\ reg_pc' = "returned"
  /\ UNCHANGED heatmaps
  /\ UNCHANGED <<enginevars, lossvars, decvars>>

NextRegressor ==
  \/ CollateHeatmaps
  \/ RegressorForward

SpecRegressor == InitRegressor /\ [][NextRegressor]_vars


\* ------------------------------------------------------ JointHeatmapDecoder
\* JointHeatmapDeconv2x.__init__ with no output padding for any kernel size.
JointHeatmapDeconv2x_NoOutputPadding(k) ==
  IF k \notin {2, 3, 4} THEN [err |-> "AssertionError", val |-> <<>>]
  ELSE [err |-> "none",
        val |-> [kernel_size |-> k, stride |-> 2,
                 padding |-> IF k = 2 THEN 0 ELSE 1,
                 output_padding |-> 0]]

\* JointHeatmapDeconv2x.__init__ (model_integral.py 37-52): the arguments of its
\* ConvTranspose2d.  A kernel size outside (2, 3, 4) fails the assertion; with
\* assertions stripped no branch binds padding and line 48 raises instead.
JointHeatmapDeconv2x(k) ==
  IF k \notin {2, 3, 4} THEN [err |-> "AssertionError", val |-> <<>>]
  ELSE [err |-> "none",
        val |-> [kernel_size |-> k, stride |-> 2,
                 padding |-> IF k = 2 THEN 0 ELSE 1,
                 output_padding |-> IF k = 3 THEN 1 ELSE 0]]

\* The size torch.nn.ConvTranspose2d gives an input of size s along one spatial
\* dimension (dilation 1).
ConvTranspose2dOut(s, c) ==
  (s - 1) * c.stride - 2 * c.padding + (c.kernel_size - 1) + c.output_padding + 1

\* The size torch.nn.Conv2d with kernel_size 1, stride 1 and no padding gives
\* (model_integral.py 79).
Conv2dOut(s) == (s - 1) + 1

\* The loop of JointHeatmapDecoder.__init__ from stage i on (model_integral.py 73-76).
RECURSIVE UpsampleModuleList(_, _, _, _)
UpsampleModuleList(layers, k, i, list) ==
  IF i >= layers THEN [err |-> "none", val |-> list]
  ELSE LET c == JointHeatmapDeconv2x(k)
       IN  IF c.err # "none" THEN [err |-> c.err, val |-> list]
           ELSE UpsampleModuleList(layers, k, i + 1, Append(list, c.val))

\* self.upsample_features(features) from stage i on (model_integral.py 102): the
\* sizes of the feature map, the input first.
RECURSIVE Upsample(_, _, _)
Upsample(stages, i, sizes) ==
  IF i > Len(stages) THEN sizes
  ELSE LET s == sizes[Len(sizes)]
       IN  Upsample(stages, i + 1,
                    Append(sizes, [h |-> ConvTranspose2dOut(s.h, stages[i]),
                                   w |-> ConvTranspose2dOut(s.w, stages[i])]))

\* ------------------------------------------------------ actions
InitDecoder ==
  /\ DEVICE = "cuda"
  /\ num_epochs = 1
  /\ checkpoint_save_interval = 1
  /\ batch_size = 1
  /\ dataset_cfg = <<"H36M">>
  /\ all_datasets = <<"h36m", "mpii">>
  /\ set_len = [d \in Registered |-> 1]
  /\ num_train_batches = 1
  /\ val_set = "valid"
  /\ ProcessBoot
  /\ files = [r \in Runs |-> [e \in Epochs |-> Absent]]
  /\ model_backups = [r \in Runs |-> {}]
  /\ LossOff
  /\ RegressorOff
  /\ kernel_size \in 1..MaxKernel
  /\ num_layers \in 0..MaxLayers
  /\ upsample_features = <<>>
  /\ features \in { <<[h |-> fh, w |-> fw]>> : fh \in 1..MaxFeature, fw \in 1..MaxFeature }
  /\ heat_size = [h |-> 0, w |-> 0]
  /\ dec_pc = "init"

\* JointHeatmapDecoder.__init__ (model_integral.py 67-81).
DecoderConstruct ==
  /\ dec_pc = "init"
  /\ LET r == UpsampleModuleList(num_layers, kernel_size, 0, <<>>)
     IN  /\ upsample_features' = r.val
         /\ dec_pc' = IF r.err # "none" THEN "rejected" ELSE "built"
  /\ UNCHANGED <<kernel_size, num_layers, features, heat_size>>
  /\ UNCHANGED <<enginevars, lossvars, regvars>>

\* JointHeatmapDecoder.forward (model_integral.py 101-107).
DecoderForward ==
  /\ dec_pc = "built"
  /\ LET sizes == Upsample(upsample_features, 1, features)
         last == sizes[Len(sizes)]
     IN  /\ features' = sizes
         /\ heat_size' = [h |-> Conv2dOut(last.h), w |-> Conv2dOut(last.w)]
  /\ dec_pc' = "returned"
  /\ UNCHANGED <<kernel_size, num_layers, upsample_features>>
  /\ UNCHANGED <<enginevars, lossvars, regvars>>

NextDecoder ==
  \/ DecoderConstruct
  \/ DecoderForward

SpecDecoder == InitDecoder /\ [][NextDecoder]_vars


\* ====================================================== the claims
\* ------------------------------------------------------ C1
\* The epochs of this process whose outcome is settled: train_step completed
\* and the process has left the epoch, or has ended with an exception.
Settled(e) ==
  /\ \E i \in 1..Len(executed) : executed[i] = e
  /\ (e < epoch \/ pc \in {"done", "failed"})

\* C1: for every executed epoch e, save_checkpoint (and save_model) is invoked
\* at the end of e if and only if e + 1 is a multiple of
\* checkpoint_save_interval or e + 1 = num_epochs, whatever the device.
C1_SavedIffDue ==
  \A e \in Epochs :
    Settled(e) =>
      ( (e \in invoked /\ e \in model_backups[run])
          <=> ((e + 1) % checkpoint_save_interval = 0 \/ e + 1 = num_epochs) )

\* ------------------------------------------------------ C2
\* C2: a process resumed from a checkpoint of epoch e executes e + 1 first,
\* for every e >= 0.
C2_ResumesAtNextEpoch ==
  (run = "resumed" /\ Len(executed) > 0) => executed[1] = epoch_nr + 1

\* ------------------------------------------------------ C3
ValidateReturned == pc \in {"evaluate", "checkpoint", "save_checkpoint", "writing"}

\* C3: the sequence validate returns has one entry per sample of the
\* validation set, entry i being the prediction of sample i in loader order.
C3_OnePredictionPerSample ==
  ValidateReturned =>
    /\ Len(preds_in_patch_with_score) = Len(valid_dataset)
    /\ \A i \in 1..Len(valid_dataset) :
         preds_in_patch_with_score[i] = Predict(valid_dataset[i], model_state)

\* validate has returned for a set that ends with a partial batch after a full one.
C3_Witness ==
  /\ pc = "evaluate"
  /\ Len(valid_dataset) > batch_size
  /\ Len(valid_dataset) % batch_size # 0
  /\ Len(preds_in_patch_with_score) = Len(valid_dataset)

\* ------------------------------------------------------ C4
\* C4: after a crash every file of a checkpoint folder is a completely
\* written record.
C4_NoPartialFileAfterCrash ==
  pc = "killed" => \A r \in Runs, e \in Epochs : files[r][e].state # "partial"

\* ------------------------------------------------------ C5
\* C5: the scheduler has been stepped once for every completed train_step and
\* not otherwise: never while the batches of an epoch are running, and only
\* after the optimizer step of every batch of the epoch.
C5_SchedulerOncePerEpoch ==
  /\ sched_steps = Len(executed)
  /\ lr_last_epoch = (IF loaded.state = "loaded" THEN loaded.lr_scheduler ELSE 0)
                     + sched_steps
  /\ (pc = "train_step" => opt_steps = batch_idx)
  /\ (run \in Runs /\ pc \in {"validate", "validate_loop", "evaluate", "checkpoint",
                               "save_checkpoint", "writing"})
       => opt_steps = num_train_batches

\* Two epochs of two batches each have been trained.
C5_Witness ==
  /\ pc = "validate"
  /\ num_train_batches = 2
  /\ sched_steps = 2
  /\ executed = <<0, 1>>

\* ------------------------------------------------------ C6
\* C6: every prediction evaluate transforms is the prediction of the h36m
\* sample whose crop it is transformed with.
C6_OwnCrop ==
  pc \in {"checkpoint", "save_checkpoint", "writing"} =>
    \A n \in 1..Len(preds_in_img_with_score) :
      preds_in_img_with_score[n].pred.sample = preds_in_img_with_score[n].crop

\* ------------------------------------------------------ C7
ValidShape(k) == Shape(batch[k].target) \in { <<J, 2>>, <<J, 3>> }

AllVisible3D ==
  \A k \in 1..Len(batch) :
    /\ Shape(batch[k].target) = <<J, 3>>
    /\ \A j \in 1..J : batch[k].vis[j] = 1

\* The sum of |pred - target| over every entry of the batch.
TotalAbsError ==
  SeqSum([ k \in 1..Len(batch) |->
    SeqSum([ j \in 1..J |->
      SeqSum([ a \in 1..3 |-> Abs(batch[k].pred[j][a] - batch[k].target[j][a]) ]) ]) ])

\* C7 as stated: with every target (J,3) and every weight 1, forward with
\* averaging returns the sum of |pred - target| divided by N*J*3.
C7_MeanAbsoluteError ==
  (loss_pc = "returned" /\ size_average /\ AllVisible3D) =>
    loss_result.val = Num(TotalAbsError, Len(batch) * J * 3)

\* C7 as amended: it returns the sum of |pred - target| divided by N.
C7_SumOverBatchSize ==
  (loss_pc = "returned" /\ size_average /\ AllVisible3D) =>
    loss_result.val = Num(TotalAbsError, Len(batch))

C7_Witness ==
  /\ loss_pc = "returned"
  /\ size_average
  /\ AllVisible3D
  /\ Len(batch) = 2
  /\ J = 2
  /\ TotalAbsError > 0

\* ------------------------------------------------------ C8
Invisible(k) == \A j \in 1..J : batch[k].vis[j] = 0

\* C8: forward raises only for an invalid target shape, and a sample whose
\* weights are all 0 contributes the loss 0, the returned value being a
\* number, for both target shapes and both reductions.
C8_InvisibleSampleIsZero ==
  /\ loss_pc = "raised" => \E k \in 1..Len(batch) : ~ValidShape(k)
  /\ loss_pc = "returned" =>
       /\ loss_result.val.kind = "num"
       /\ \A k \in 1..Len(batch) : Invisible(k) => batch_losses[k] = Num(0, 1)

\* forward has returned, averaging, for an invisible (J,2) and an invisible
\* (J,3) sample.
C8_Witness ==
  /\ loss_pc = "returned"
  /\ size_average
  /\ \E k, l \in 1..Len(batch) :
       /\ Invisible(k) /\ Shape(batch[k].target) = <<J, 2>>
       /\ Invisible(l) /\ Shape(batch[l].target) = <<J, 3>>

\* ------------------------------------------------------ C9
\* The weighted L1 distance of sample k over the axes its target has.
ExpectedSampleLoss(k) ==
  SeqSum([ j \in 1..J |->
    batch[k].vis[j] *
      SeqSum([ a \in 1..Len(batch[k].target[j]) |->
                 Abs(batch[k].pred[j][a] - batch[k].target[j][a]) ]) ])

\* C9: forward raises, returning nothing, exactly when some sample's target
\* shape is neither (J,2) nor (J,3); otherwise every sample is scored by its
\* own shape.
C9_InvalidShapeRaises ==
  loss_pc \in {"returned", "raised"} =>
    /\ (loss_pc = "raised") <=> (\E k \in 1..Len(batch) : ~ValidShape(k))
    /\ loss_pc = "raised" => loss_result = [kind |-> "AssertionError"]
    /\ loss_pc = "returned" =>
         /\ loss_result.kind = "value"
         /\ Len(batch_losses) = Len(batch)
         /\ \A k \in 1..Len(batch) : batch_losses[k] = Num(ExpectedSampleLoss(k), 1)

\* forward has raised for a batch whose first sample is valid and whose second
\* is not.
C9_Witness ==
  /\ loss_pc = "raised"
  /\ Len(batch) = 2
  /\ ValidShape(1)
  /\ ~ValidShape(2)

\* ------------------------------------------------------ C10
\* C10: when the configured list is empty or holds a name that matches no
\* registered dataset, the process ends with ConfigurationError before any
\* batch is trained.
C10_UnknownNameFails ==
  ( /\ run \in Runs
    /\ \/ Len(dataset_cfg) = 0
       \/ \E i \in 1..Len(dataset_cfg) : Lower(dataset_cfg[i]) \notin Registered )
  => (pc = "failed" /\ error = "ConfigurationError" /\ model_state = 0)

\* ------------------------------------------------------ C11
\* The (sample, joint) pairs of the volume the regressor was given.
Pairs == { <<n, j>> : n \in 1..Len(heatmaps), j \in 1..Len(heatmaps[1]) }

\* C11: once forward has returned, the D*H*W probabilities of every
\* (sample, joint) pair are non-negative and sum to 1, and so does each of the
\* three per-axis marginals.
C11_SoftmaxOverVolume ==
  reg_pc = "returned" =>
    LET s == HeatShape(probabilities)
        One == Num(1, 1)
    IN  \A q \in Pairs :
          LET v == probabilities[q[1]][q[2]]
          IN  /\ \A d \in 1..s.D, h \in 1..s.H, w \in 1..s.W : v[d][h][w].n >= 0
              /\ FSum(x_maps(v, s.D, s.H, s.W)) = One
              /\ FSum(y_maps(v, s.D, s.H, s.W)) = One
              /\ FSum(z_maps(v, s.D, s.H, s.W)) = One

\* ------------------------------------------------------ C12
\* C12: every coordinate forward returns lies in [-0.5, 0.5).
C12_CoordinatesInRange ==
  reg_pc = "returned" =>
    \A q \in Pairs : \A a \in 1..3 :
      /\ FLeq(Num(-1, 2), joints[q[1]][q[2]][a])
      /\ FLess(joints[q[1]][q[2]][a], Num(1, 2))

\* ------------------------------------------------------ C13
\* The marginals of a pair with the length of their axis and the coordinate
\* forward returned for them.
Marginals(q) ==
  LET s == HeatShape(probabilities)
      v == probabilities[q[1]][q[2]]
  IN  { [m |-> x_maps(v, s.D, s.H, s.W), L |-> s.W, coord |-> joints[q[1]][q[2]][1]],
        [m |-> y_maps(v, s.D, s.H, s.W), L |-> s.H, coord |-> joints[q[1]][q[2]][2]],
        [m |-> z_maps(v, s.D, s.H, s.W), L |-> s.D, coord |-> joints[q[1]][q[2]][3]] }

\* The marginal is the uniform distribution over its axis.
UniformMarginal(r) == \A i \in 1..r.L : r.m[i] = Num(1, r.L)

\* C13: the coordinate returned for a marginal that is uniform over an axis of
\* length L is exactly 0.
C13_UniformGivesZero ==
  reg_pc = "returned" =>
    \A q \in Pairs : \A r \in Marginals(q) :
      UniformMarginal(r) => r.coord = Num(0, 1)

\* C13 (amended): the coordinate returned for a marginal that is uniform over an
\* axis of length L is exactly -1/(2L).
C13_UniformGivesMinusHalfBin ==
  reg_pc = "returned" =>
    \A q \in Pairs : \A r \in Marginals(q) :
      UniformMarginal(r) => r.coord = Num(-1, 2 * r.L)

\* forward has returned a coordinate for a uniform marginal over an axis of
\* more than one bin.
C13_Witness ==
  /\ reg_pc = "returned"
  /\ \E q \in Pairs : \E r \in Marginals(q) : UniformMarginal(r) /\ r.L > 1

\* ------------------------------------------------------ C14
RECURSIVE Pow2(_)
Pow2(n) == IF n = 0 THEN 1 ELSE 2 * Pow2(n - 1)

\* C14: a stage is constructed for the kernel sizes 2, 3 and 4 only, and
\* construction fails for any other; every constructed stage doubles the size
\* it is given, so that num_layers stacked stages turn s into (2^num_layers)*s.
C14_StagesDouble ==
  /\ dec_pc = "rejected" => (kernel_size \notin {2, 3, 4} /\ upsample_features = <<>>)
  /\ dec_pc \in {"built", "returned"} =>
       /\ Len(upsample_features) = num_layers
       /\ num_layers >= 1 => kernel_size \in {2, 3, 4}
       /\ \A i \in 1..num_layers : \A s \in 1..(4 * MaxFeature) :
            ConvTranspose2dOut(s, upsample_features[i]) = 2 * s
  /\ dec_pc = "returned" =>
       /\ Len(features) = num_layers + 1
       /\ \A i \in 1..num_layers :
            /\ features[i + 1].h = 2 * features[i].h
            /\ features[i + 1].w = 2 * features[i].w
       /\ heat_size.h = Pow2(num_layers) * features[1].h
       /\ heat_size.w = Pow2(num_layers) * features[1].w

\* forward has returned from two stacked stages of kernel size 3 on a feature
\* map that is not square.
C14_Witness ==
  /\ dec_pc = "returned"
  /\ kernel_size = 3
  /\ num_layers = 2
  /\ features[1].h # features[1].w
  /\ heat_size.h = 4 * features[1].h

\* ------------------------------------------------------ C15
\* C15: what load_checkpoints returns for a file written by
\* save_checkpoint(e, tl, vl) is exactly (e, tl, vl), and the model, optimizer
\* and scheduler states it restores are those of the engine that made the
\* call; until the new process takes a step of its own they are its states.
C15_RoundTrip ==
  loaded.state = "loaded" =>
    LET s == saved["fresh"][loaded.path]
    IN  /\ s.state = "called"
        /\ loaded.epoch = s.epoch
        /\ loaded.epoch = loaded.path
        /\ loaded.train_loss = s.train_loss
        /\ loaded.val_loss = s.val_loss
        /\ loaded.model = s.model
        /\ loaded.optimizer = s.optimizer
        /\ loaded.lr_scheduler = s.lr_scheduler
        /\ (opt_steps = 0 /\ sched_steps = 0 /\ executed = <<>>) =>
             EngineState = [model |-> s.model, optimizer |-> s.optimizer,
                            lr_scheduler |-> s.lr_scheduler]

\* A process has loaded the checkpoint of a later epoch than the first, whose
\* two losses differ.
C15_Witness ==
  /\ run = "resumed"
  /\ loaded.state = "loaded"
  /\ loaded.epoch >= 1
  /\ loaded.train_loss # loaded.val_loss
  /\ loaded.lr_scheduler >= 2

\* ------------------------------------------------------ C16
\* C16: once a training batch has raised, nothing more happens in that
\* process: no batch, optimizer step, scheduler step, validation or checkpoint
\* write; only another process can start.
C16_NothingAfterBatchError ==
  [][ (error = "BatchError" /\ run' = run) =>
        UNCHANGED <<pc, epoch, batch_idx, model_state, optimizer_state, lr_last_epoch,
                    opt_steps, sched_steps, executed, invoked, preds_list, train_loss,
                    val_loss, files, model_backups, saved>> ]_vars

\* The first of two batches of an epoch that is not the last has raised.
C16_Witness ==
  /\ pc = "failed"
  /\ error = "BatchError"
  /\ batch_idx = 0
  /\ num_train_batches = 2
  /\ epoch + 1 < num_epochs

\* ------------------------------------------------------ C17
\* C17: while validate runs and when it has returned, the model is in eval mode
\* and the model, optimizer and scheduler states are those validate was entered
\* with; predictions are collected for every batch consumed; a training run
\* updates the loss meter once per batch, an inference run (only_prediction)
\* never.
C17_ValidateIsReadOnly ==
  pc \in {"validate_loop", "evaluate"} =>
    /\ training = FALSE
    /\ EngineState = at_validate
    /\ Len(preds_list) = batch_idx
    /\ only_prediction <=> (run = "inference")
    /\ only_prediction => losses_count = 0
    /\ ~only_prediction => losses_count = batch_idx
    /\ pc = "evaluate" =>
         /\ batch_idx = NumBatches(Len(valid_dataset), batch_size)
         /\ val_loss.updates = losses_count

\* validate has returned in an inference run that predicted two batches.
C17_Witness ==
  /\ run = "inference"
  /\ pc = "evaluate"
  /\ only_prediction
  /\ Len(preds_list) = 2
  /\ losses_count = 0

\* ------------------------------------------------------ C18
\* The shared configuration objects.
SharedObjects == {"data_collection", "h36m_params", "mpii_params"}

\* C18: the object get_dataset_config returns reads dataset as ['h36m'] and
\* h36m_params.val_set as 'test'; every other attribute read through it and
\* through its h36m_params is the one of the shared configuration, which the
\* call leaves as it was.
C18_ViewLeavesGlobal ==
  [][ (run' = "inference" /\ predict_cfg'.state = "view") =>
        LET before == Configuration_get(dataset_cfg, val_set)
            h == predict_cfg'.heap
            params == getattr(h, "cfg", "h36m_params").val.ref
        IN  /\ getattr(h, "cfg", "dataset") = [err |-> "none", val |-> <<"h36m">>]
            /\ getattr(h, params, "val_set") = [err |-> "none", val |-> "test"]
            /\ \A n \in AttrsOf("data_collection") \ {"dataset", "h36m_params"} :
                 getattr(h, "cfg", n) = getattr(before, "data_collection", n)
            /\ \A n \in AttrsOf("h36m_params") \ {"val_set"} :
                 getattr(h, params, n) = getattr(before, "h36m_params", n)
            /\ \A id \in SharedObjects : h[id] = before[id]
            /\ dataset_cfg' = dataset_cfg
            /\ val_set' = val_set ]_vars

\* An inference process runs on the view of a configuration that names mpii
\* only and the valid split.
C18_Witness ==
  /\ run = "inference"
  /\ predict_cfg.state = "view"
  /\ pc = "validate"
  /\ dataset_cfg = <<"mpii">>
  /\ val_set = "valid"
  /\ valid_dataset # <<>>
  /\ \A i \in 1..Len(valid_dataset) : valid_dataset[i].set = "h36m"


====
